---- MODULE Spec2Model ----
(***************************************************************************)
(* Glide-performance script (src/main.py): per-airfoil CSV load, the       *)
(* lift-coefficient lookup with linear interpolation, and the derived      *)
(* drag / glide pipeline.                                                  *)
(*                                                                         *)
(* Floats are modelled as exact rationals extended with NaN, +inf and      *)
(* -inf (numpy semantics for x/0, inf*0, NaN propagation).  Rounding of    *)
(* finite results is outside the model.  A Python name that has not been   *)
(* bound yet has the value Unbound; reading it raises NameError.           *)
(***************************************************************************)
EXTENDS Integers, Sequences, FiniteSets, TLC

\* ------------------------------------------------------------------ bounds
NumAirfoils == 2   \* airfoils of the registry that are processed
NumVel == 3        \* samples of the velocity sweep (1000 in the source)
MaxRows == 3       \* data rows of one airfoil file

\* ------------------------------------------------------- program constants
HeaderRows == 11   \* rows skipped before the data rows

\* ------------------------------------------------------------------ floats
RECURSIVE Gcd(_, _)
Gcd(a, b) == IF b = 0 THEN a ELSE Gcd(b, a % b)

Abs(x) == IF x < 0 THEN -x ELSE x

NaN == [k |-> "nan", n |-> 0, d |-> 1]
PInf == [k |-> "inf", n |-> 1, d |-> 1]
NInf == [k |-> "inf", n |-> -1, d |-> 1]
Unbound == [k |-> "unbound", n |-> 0, d |-> 1]

\* the rational n/d in lowest terms with a positive denominator
Rat(n, d) ==
    LET g == Gcd(Abs(n), Abs(d))
        s == IF d < 0 THEN -1 ELSE 1
    IN  [k |-> "num", n |-> s * (n \div g), d |-> s * (d \div g)]

Num(x) == [k |-> "num", n |-> x, d |-> 1]

IsNaN(x) == x.k = "nan"
IsNum(x) == x.k = "num"
Sign(x) == IF x.n > 0 THEN 1 ELSE IF x.n < 0 THEN -1 ELSE 0
Inf(s) == IF s > 0 THEN PInf ELSE NInf

Neg(x) == IF IsNaN(x) THEN NaN ELSE [x EXCEPT !.n = -x.n]

Add(x, y) ==
    IF IsNaN(x) \/ IsNaN(y) THEN NaN
    ELSE IF IsNum(x) /\ IsNum(y) THEN Rat(x.n * y.d + y.n * x.d, x.d * y.d)
    ELSE IF IsNum(x) THEN y
    ELSE IF IsNum(y) THEN x
    ELSE IF x.n = y.n THEN x ELSE NaN

Sub(x, y) == Add(x, Neg(y))

Mul(x, y) ==
    IF IsNaN(x) \/ IsNaN(y) THEN NaN
    ELSE IF IsNum(x) /\ IsNum(y) THEN Rat(x.n * y.n, x.d * y.d)
    ELSE IF Sign(x) = 0 \/ Sign(y) = 0 THEN NaN
    ELSE Inf(Sign(x) * Sign(y))

\* numpy float64 division: x/0 is +-inf, 0/0 and inf/inf are NaN, no exception
Div(x, y) ==
    IF IsNaN(x) \/ IsNaN(y) THEN NaN
    ELSE IF IsNum(x) /\ IsNum(y) THEN
        IF y.n # 0 THEN Rat(x.n * y.d, x.d * y.n)
        ELSE IF x.n = 0 THEN NaN ELSE Inf(Sign(x))
    ELSE IF IsNum(y) THEN Inf(Sign(x) * (IF y.n < 0 THEN -1 ELSE 1))
    ELSE IF IsNum(x) THEN Num(0)
    ELSE NaN

\* x < y and x >= y on floats; every comparison with NaN is false
Less(x, y) ==
    /\ ~IsNaN(x) /\ ~IsNaN(y)
    /\ IF IsNum(x) /\ IsNum(y) THEN x.n * y.d < y.n * x.d
       ELSE IF IsNum(x) THEN y.n > 0
       ELSE IF IsNum(y) THEN x.n < 0
       ELSE x.n < y.n

GreaterEq(x, y) == ~IsNaN(x) /\ ~IsNaN(y) /\ ~Less(x, y)

RECURSIVE ISqrtIn(_, _, _)
\* the largest r in lo..hi with r*r <= m
ISqrtIn(lo, hi, m) ==
    IF lo >= hi THEN lo
    ELSE LET mid == (lo + hi + 1) \div 2
         IN  IF mid * mid <= m THEN ISqrtIn(mid, hi, m) ELSE ISqrtIn(lo, mid - 1, m)

\* np.sqrt, rounded down to a whole number for finite arguments
Sqrt(x) ==
    IF IsNaN(x) THEN NaN
    ELSE IF ~IsNum(x) THEN (IF x.n > 0 THEN PInf ELSE NaN)
    ELSE IF x.n < 0 THEN NaN
    ELSE LET m == x.n \div x.d
         IN  Num(ISqrtIn(0, IF m < 40000 THEN m ELSE 40000, m))

\* --------------------------------------------------------- configuration
\* The registry of the source in source order; a name is its rank in
\* lexicographic order ("NACA 0012" appears twice), a filename its position.
RegistryNames == <<5, 3, 7, 8, 9, 1, 2, 4, 5, 6>>

Registry == [p \in 1..NumAirfoils |-> [name |-> RegistryNames[p], filename |-> p]]

RECURSIVE InsertByName(_, _)
InsertByName(sorted, a) ==
    IF sorted = <<>> THEN <<a>>
    ELSE IF sorted[Len(sorted)].name <= a.name THEN Append(sorted, a)
    ELSE Append(InsertByName(SubSeq(sorted, 1, Len(sorted) - 1), a), sorted[Len(sorted)])

RECURSIVE SortByName(_)
\* list.sort(key=name): stable, ascending
SortByName(s) ==
    IF s = <<>> THEN <<>>
    ELSE InsertByName(SortByName(SubSeq(s, 1, Len(s) - 1)), s[Len(s)])

\* Model units: velocity i stands for the i-th sample of the increasing
\* sweep; LiftFactor stands for lift / (0.5 * air_density * wing_area).
velocity == [v \in 1..NumVel |-> Num(v)]

LiftFactor == Num(4)

\* the needed lift coefficient: lift / (0.5 * rho * v^2 * S), decreasing in v
lift_coefficient == [v \in 1..NumVel |-> Div(LiftFactor, Mul(velocity[v], velocity[v]))]

\* np.pi * oswald_efficiency * aspect_ratio (about 20.95), in model units
InducedDivisor == Num(21)

\* begin_altitude, in km
begin_altitude == Num(10)

\* ------------------------------------------------------------ input files
AlphaValues == {0, 5, 10}
ClValues == {0, 2, 4}
CdValues == {1, 2}

\* the table of the worked interpolation example, Cl scaled by 4, Cd by 100
ExampleTable ==
    << [ok |-> TRUE, alpha |-> 0, cl |-> 0, cd |-> 1],
       [ok |-> TRUE, alpha |-> 5, cl |-> 2, cd |-> 2],
       [ok |-> TRUE, alpha |-> 10, cl |-> 4, cd |-> 5] >>

\* rows that csv/float() parses into three floats
GoodRows ==
    [ok : {TRUE}, alpha : AlphaValues, cl : ClValues, cd : CdValues]
    \cup {ExampleTable[r] : r \in 1..3}
\* a row with a field float() rejects, or with fewer than three fields
BadRow == [ok |-> FALSE, alpha |-> 0, cl |-> 0, cd |-> 0]

DataSeqs(rows) == UNION {[1..len -> rows] : len \in 0..MaxRows}

\* A file: whether open() succeeds, how many of its first HeaderRows rows
\* exist, and the rows from row HeaderRows + 1 on.
Files ==
    {[openable |-> FALSE, header |-> 0, data |-> <<>>]}
    \cup {[openable |-> TRUE, header |-> h, data |-> <<>>] : h \in 0..(HeaderRows - 1)}
    \cup {[openable |-> TRUE, header |-> HeaderRows, data |-> rs] :
            rs \in DataSeqs(GoodRows \cup {BadRow})}

\* no file read yet
NoFile == [openable |-> FALSE, header |-> -1, data |-> <<>>]

\* index of the first row that does not parse, Len + 1 if all parse
RECURSIVE FirstBad(_, _)
FirstBad(data, j) ==
    IF j > Len(data) THEN j
    ELSE IF ~data[j].ok THEN j ELSE FirstBad(data, j + 1)

\* mutant of NanArray: the arrays start as zeros
ZeroArray == [v \in 1..NumVel |-> Num(0)]

\* [np.nan for _ in range(len(velocity))]
NanArray == [v \in 1..NumVel |-> NaN]

\* seq[j] with Python's 0-based index, a negative index counting from the end
PyIndex(seq, j) == IF j >= 0 THEN seq[j + 1] ELSE seq[Len(seq) + j + 1]

\* ------------------------------------------------------------------ lookup
\* mutant of Qualifies: cl > needed_cl
QualifiesStrict(cl, needed_cl) == Less(needed_cl, cl)

\* cl >= needed_cl
Qualifies(cl, needed_cl) == GreaterEq(cl, needed_cl)

\* mutant of ScanRow: alpha <= min_alpha, the last row of a tie wins
ScanRowLastTie(acc, alpha, cl, j, needed_cl) ==
    IF Qualifies(cl, needed_cl) /\ (~acc.found_alpha \/ ~Less(acc.min_alpha, alpha))
    THEN [found_alpha |-> TRUE, min_alpha |-> alpha, alpha_index |-> j]
    ELSE acc

\* mutant of ScanRow: no comparison of angles, the last qualifying row wins
ScanRowAny(acc, alpha, cl, j, needed_cl) ==
    IF Qualifies(cl, needed_cl)
    THEN [found_alpha |-> TRUE, min_alpha |-> alpha, alpha_index |-> j]
    ELSE acc

\* One iteration of the scan over zip(alphas, cls), 0-based row j.
ScanRow(acc, alpha, cl, j, needed_cl) ==
    IF Qualifies(cl, needed_cl) /\ (~acc.found_alpha \/ Less(alpha, acc.min_alpha))
    THEN [found_alpha |-> TRUE, min_alpha |-> alpha, alpha_index |-> j]
    ELSE acc

RECURSIVE ScanFrom(_, _, _, _, _)
ScanFrom(acc, al, cl, j, needed_cl) ==
    IF j >= Len(al) THEN acc
    ELSE ScanFrom(ScanRow(acc, al[j + 1], cl[j + 1], j, needed_cl), al, cl, j + 1, needed_cl)

\* found_alpha = False, then the scan; min_alpha and alpha_index keep the
\* values an earlier lookup left when no row qualifies
Scan(al, cl, needed_cl, carried) ==
    ScanFrom([found_alpha |-> FALSE, min_alpha |-> carried.min_alpha,
              alpha_index |-> carried.alpha_index], al, cl, 0, needed_cl)

\* mutant of Lerp: interpolates from the upper sample upwards
LerpFromBigger(smaller, bigger, lerp_amount) ==
    Add(bigger, Mul(lerp_amount, Sub(bigger, smaller)))

\* mutant of Lerp: interpolates from the upper sample downwards
LerpDown(smaller, bigger, lerp_amount) ==
    Sub(bigger, Mul(lerp_amount, Sub(bigger, smaller)))

\* smaller + lerp_amount * (bigger - smaller)
Lerp(smaller, bigger, lerp_amount) == Add(smaller, Mul(lerp_amount, Sub(bigger, smaller)))

\* The body of the lookup loop for one needed_cl.  carried holds the names
\* that survive from earlier lookups: min_alpha, alpha_index, bigger_cd.
\* The result says which array slots are assigned and whether the body raises.
LookupBody(al, cl, cd, needed_cl, carried) ==
    LET s == Scan(al, cl, needed_cl, carried)
        k == s.alpha_index
        kept == [min_alpha |-> s.min_alpha, alpha_index |-> s.alpha_index,
                 bigger_cd |-> carried.bigger_cd]
    IN  IF ~s.found_alpha
        THEN [set_alpha |-> FALSE, alpha |-> NaN, set_cd |-> FALSE, cd |-> NaN,
              raised |-> FALSE, carried |-> kept]
        ELSE LET bigger_cl == cl[k + 1]
                 bigger_alpha == al[k + 1]
                 smaller_alpha == PyIndex(al, k - 1)
                 smaller_cl == PyIndex(cl, k - 1)
             IN  IF k <= 0
                 THEN IF carried.bigger_cd = Unbound
                      THEN [set_alpha |-> TRUE, alpha |-> bigger_alpha,
                            set_cd |-> FALSE, cd |-> NaN,
                            raised |-> TRUE, carried |-> kept]
                      ELSE [set_alpha |-> TRUE, alpha |-> bigger_alpha,
                            set_cd |-> TRUE, cd |-> carried.bigger_cd,
                            raised |-> FALSE, carried |-> kept]
                 ELSE LET lerp_amount == Div(Sub(needed_cl, smaller_cl),
                                             Sub(bigger_cl, smaller_cl))
                          smaller_cd == cd[k]
                          bigger_cd_ == cd[k + 1]
                      IN  [set_alpha |-> TRUE,
                           alpha |-> Lerp(smaller_alpha, bigger_alpha, lerp_amount),
                           set_cd |-> TRUE,
                           cd |-> Lerp(smaller_cd, bigger_cd_, lerp_amount),
                           raised |-> FALSE,
                           carried |-> [kept EXCEPT !.bigger_cd = bigger_cd_]]

\* ------------------------------------------------------------------- state
VARIABLES
    pc,                          \* position in the script
    error,                       \* the exception that ended the run, or "none"
    airfoils,                    \* the registry list
    idx,                         \* 1-based position of the airfoil loop, 0 before it
    airfoil_file,                \* the file at airfoil_path of the current airfoil
    alphas, cls, cds,            \* the columns read from it
    angle_of_attack,
    zero_lift_drag_coefficient,
    i,                           \* 0-based sweep index the lookup loop handles next
    min_alpha, alpha_index, bigger_cd,   \* names that survive a lookup
    plots                        \* labels of the series plotted so far

vars == <<pc, error, airfoils, idx, airfoil_file, alphas, cls, cds, angle_of_attack,
          zero_lift_drag_coefficient, i, min_alpha, alpha_index, bigger_cd, plots>>

Init ==
    /\ pc = "sort"
    /\ error = "none"
    /\ airfoils = Registry
    /\ idx = 0
    /\ airfoil_file = NoFile
    /\ alphas = <<>> /\ cls = <<>> /\ cds = <<>>
    /\ angle_of_attack = <<>>
    /\ zero_lift_drag_coefficient = <<>>
    /\ i = 0
    /\ min_alpha = Unbound
    /\ alpha_index = -1
    /\ bigger_cd = Unbound
    /\ plots = <<>>

\* airfoils.sort(key=lambda x: x.name), then the airfoil loop starts
SortAirfoils ==
    /\ pc = "sort"
    /\ airfoils' = SortByName(airfoils)
    /\ idx' = 1
    /\ pc' = "load"
    /\ UNCHANGED <<error, airfoil_file, alphas, cls, cds, angle_of_attack,
                   zero_lift_drag_coefficient, i, min_alpha, alpha_index, bigger_cd, plots>>

\* the columns of the rows data[1..upto]
Column(data, upto, field) ==
    [j \in 1..upto |-> Num(IF field = "alpha" THEN data[j].alpha
                           ELSE IF field = "cl" THEN data[j].cl ELSE data[j].cd)]

\* mutant of ReadAirfoil: a row that does not parse is skipped with the rest
ReadAirfoilSkipBad(f) ==
    IF ~f.openable THEN [raised |-> "FileNotFoundError", bound |-> FALSE, rows |-> 0]
    ELSE IF f.header < HeaderRows THEN [raised |-> "StopIteration", bound |-> TRUE, rows |-> 0]
    ELSE [raised |-> "none", bound |-> TRUE, rows |-> FirstBad(f.data, 1) - 1]

\* What reading file f does: the exception raised ("none" if none) and the
\* rows appended to the three lists before it.
ReadAirfoil(f) ==
    IF ~f.openable THEN [raised |-> "FileNotFoundError", bound |-> FALSE, rows |-> 0]
    ELSE IF f.header < HeaderRows THEN [raised |-> "StopIteration", bound |-> TRUE, rows |-> 0]
    ELSE LET b == FirstBad(f.data, 1)
         IN  IF b <= Len(f.data)
             THEN [raised |-> "ValueError", bound |-> TRUE, rows |-> b - 1]
             ELSE [raised |-> "none", bound |-> TRUE, rows |-> Len(f.data)]

\* Open and read the CSV of airfoils[idx], then initialise the two arrays.
LoadAirfoil ==
    /\ pc = "load"
    /\ \E f \in Files : \E r \in {ReadAirfoil(f)} :
            /\ airfoil_file' = f
            /\ IF r.bound
               THEN /\ alphas' = Column(f.data, r.rows, "alpha")
                    /\ cls' = Column(f.data, r.rows, "cl")
                    /\ cds' = Column(f.data, r.rows, "cd")
               ELSE UNCHANGED <<alphas, cls, cds>>
            /\ IF r.raised = "none"
               THEN /\ angle_of_attack' = NanArray
                    /\ zero_lift_drag_coefficient' = NanArray
                    /\ i' = 0
                    /\ pc' = "lookup"
                    /\ error' = error
               ELSE /\ pc' = "error"
                    /\ error' = r.raised
                    /\ UNCHANGED <<angle_of_attack, zero_lift_drag_coefficient, i>>
    /\ UNCHANGED <<airfoils, idx, min_alpha, alpha_index, bigger_cd, plots>>

Carried == [min_alpha |-> min_alpha, alpha_index |-> alpha_index, bigger_cd |-> bigger_cd]

\* One iteration of `for i, needed_cl in enumerate(lift_coefficient)`.
LookupStep ==
    /\ pc = "lookup"
    /\ \E r \in {LookupBody(alphas, cls, cds, lift_coefficient[i + 1], Carried)} :
           /\ angle_of_attack' =
                IF r.set_alpha THEN [angle_of_attack EXCEPT ![i + 1] = r.alpha]
                ELSE angle_of_attack
           /\ zero_lift_drag_coefficient' =
                IF r.set_cd THEN [zero_lift_drag_coefficient EXCEPT ![i + 1] = r.cd]
                ELSE zero_lift_drag_coefficient
           /\ min_alpha' = r.carried.min_alpha
           /\ alpha_index' = r.carried.alpha_index
           /\ bigger_cd' = r.carried.bigger_cd
           /\ IF r.raised
              THEN pc' = "error" /\ error' = "NameError" /\ i' = i
              ELSE /\ i' = i + 1
                   /\ pc' = IF i + 1 = NumVel THEN "derive" ELSE "lookup"
                   /\ error' = error
    /\ UNCHANGED <<airfoils, idx, airfoil_file, alphas, cls, cds, plots>>

\* ------------------------------------------------------ derived quantities
\* numpy array arithmetic on the arrays of the current airfoil
induced_drag_coefficient ==
    [v \in 1..NumVel |-> Div(Mul(lift_coefficient[v], lift_coefficient[v]), InducedDivisor)]

total_drag_coefficient ==
    [v \in 1..NumVel |-> Add(zero_lift_drag_coefficient[v], induced_drag_coefficient[v])]

lift_drag_ratio ==
    [v \in 1..NumVel |-> Div(lift_coefficient[v], total_drag_coefficient[v])]

glide_ratio == lift_drag_ratio

glide_distance == [v \in 1..NumVel |-> Mul(glide_ratio[v], begin_altitude)]

glide_pythagorean_distance ==
    [v \in 1..NumVel |-> Sqrt(Add(Mul(glide_distance[v], glide_distance[v]),
                                  Mul(begin_altitude, begin_altitude)))]

glide_time == [v \in 1..NumVel |-> Div(glide_pythagorean_distance[v], velocity[v])]

\* The calculations on the finished arrays, the three plot() calls, and the
\* step of the airfoil loop.
PlotCurves ==
    /\ pc = "derive"
    /\ plots' = Append(plots, airfoils[idx].name)
    /\ IF idx = Len(airfoils)
       THEN pc' = "show" /\ idx' = idx
       ELSE pc' = "load" /\ idx' = idx + 1
    \* The lists, the arrays and i of the finished airfoil are dead from here
    \* on: lines 71-73, 82-83 and 85 rebind them before any read, or the run
    \* ends.  The model drops them so that equal continuations are one state.
    /\ airfoil_file' = NoFile
    /\ alphas' = <<>> /\ cls' = <<>> /\ cds' = <<>>
    /\ angle_of_attack' = <<>>
    /\ zero_lift_drag_coefficient' = <<>>
    /\ i' = 0
    /\ UNCHANGED <<error, airfoils, min_alpha, alpha_index, bigger_cd>>

\* titles, legends, plt.show and the wait for the user
Show ==
    /\ pc = "show"
    /\ pc' = "done"
    /\ UNCHANGED <<error, airfoils, idx, airfoil_file, alphas, cls, cds, angle_of_attack,
                   zero_lift_drag_coefficient, i, min_alpha, alpha_index, bigger_cd, plots>>

Next == SortAirfoils \/ LoadAirfoil \/ LookupStep \/ PlotCurves \/ Show

Spec == Init /\ [][Next]_vars

\* ================================================================ claims
\* Vocabulary of the claims, stated on the table and the sweep directly.

\* x <= y and x < y for finite values
RLeq(x, y) == IsNum(x) /\ IsNum(y) /\ x.n * y.d <= y.n * x.d
RLt(x, y) == IsNum(x) /\ IsNum(y) /\ x.n * y.d < y.n * x.d

\* the run is inside the lookup loop of an airfoil, or has just left it
InAirfoil == pc \in {"lookup", "derive"} \/ (pc = "error" /\ error = "NameError")

\* the 0-based sweep indices whose lookup has completed
Processed == 0..(i - 1)

Needed(j) == lift_coefficient[j + 1]

\* the 1-based rows of the table whose Cl meets the target of index j
QualifyingRows(j) == {r \in 1..Len(cls) : RLeq(Needed(j), cls[r])}

\* the qualifying row of least angle, the first such row in index order
SelectedRow(j) ==
    CHOOSE r \in QualifyingRows(j) :
        \A q \in QualifyingRows(j) :
            RLt(alphas[r], alphas[q]) \/ (alphas[r] = alphas[q] /\ r <= q)

SortedByAlpha == \A r \in 1..(Len(alphas) - 1) : RLeq(alphas[r], alphas[r + 1])
SortedByCl == \A r \in 1..(Len(cls) - 1) : RLeq(cls[r], cls[r + 1])

\* C1 (as claimed): once the lookup loop of an airfoil has finished, for every
\* table, angle_of_attack[i] and zero_lift_drag_coefficient[i] are NaN exactly
\* when no row of the table has Cl >= the needed Cl of index i.
C1_NanIffNoQualifying_AnyTable ==
    pc = "derive" =>
        \A j \in 0..(NumVel - 1) :
            /\ IsNaN(angle_of_attack[j + 1]) <=> QualifyingRows(j) = {}
            /\ IsNaN(zero_lift_drag_coefficient[j + 1]) <=> QualifyingRows(j) = {}

\* C1 (amended): for every table ordered by ascending angle, after every
\* lookup that completes, and so once the lookup loop has finished,
\* angle_of_attack[i] and zero_lift_drag_coefficient[i] are NaN exactly when
\* no row of the table has Cl >= the needed Cl of index i.
C1_NanIffNoQualifying ==
    (InAirfoil /\ SortedByAlpha) =>
        \A j \in Processed :
            /\ IsNaN(angle_of_attack[j + 1]) <=> QualifyingRows(j) = {}
            /\ IsNaN(zero_lift_drag_coefficient[j + 1]) <=> QualifyingRows(j) = {}

C1_Witness ==
    /\ pc = "derive" /\ SortedByAlpha /\ Len(alphas) >= 2
    /\ QualifyingRows(0) = {} /\ IsNaN(angle_of_attack[1])
    /\ QualifyingRows(1) # {} /\ IsNum(zero_lift_drag_coefficient[2])

\* C2: whenever the scan selects the first row of the table, the lookup does
\* not crash and returns that row's own angle and drag coefficient.
C2_FirstRowReturnsOwnValues ==
    /\ ~(pc = "error" /\ error = "NameError")
    /\ InAirfoil =>
        \A j \in Processed :
            (QualifyingRows(j) # {} /\ SelectedRow(j) = 1) =>
                /\ angle_of_attack[j + 1] = alphas[1]
                /\ zero_lift_drag_coefficient[j + 1] = cds[1]

\* The lookup loop of a run in which this table is the first one processed:
\* the arrays it leaves and whether it raises.
RECURSIVE FreshLoop(_, _)
FreshLoop(j, st) ==
    IF j >= NumVel \/ st.raised THEN st
    ELSE LET r == LookupBody(alphas, cls, cds, Needed(j), st.carried)
         IN  FreshLoop(j + 1,
                [angle |-> IF r.set_alpha THEN [st.angle EXCEPT ![j + 1] = r.alpha]
                           ELSE st.angle,
                 drag |-> IF r.set_cd THEN [st.drag EXCEPT ![j + 1] = r.cd] ELSE st.drag,
                 raised |-> r.raised,
                 carried |-> r.carried])

FreshRun ==
    FreshLoop(0, [angle |-> NanArray, drag |-> NanArray, raised |-> FALSE,
                  carried |-> [min_alpha |-> Unbound, alpha_index |-> -1,
                               bigger_cd |-> Unbound]])

\* C3: the arrays an airfoil's lookup loop produces depend on its table and
\* the sweep only: they equal those of a run that processes the same table
\* first, whatever was processed before.
C3_CurveIndependentOfHistory ==
    pc = "derive" =>
        /\ ~FreshRun.raised
        /\ angle_of_attack = FreshRun.angle
        /\ zero_lift_drag_coefficient = FreshRun.drag

\* the interpolation factor of the bracket below 1-based row r
BracketT(j, r) == Div(Sub(Needed(j), cls[r - 1]), Sub(cls[r], cls[r - 1]))

\* C4: when the selected row r is not the first and Cl[r] # Cl[r-1], the
\* lookup returns angle[r-1] + t*(angle[r]-angle[r-1]) and
\* Cd[r-1] + t*(Cd[r]-Cd[r-1]) with t = (target-Cl[r-1])/(Cl[r]-Cl[r-1]);
\* the example table with target 1 (0.25 unscaled) gives 5/2 and 3/2 (0.015).
C4_Interpolation ==
    InAirfoil =>
        \A j \in Processed :
            (QualifyingRows(j) # {} /\ SelectedRow(j) > 1) =>
                LET r == SelectedRow(j)
                    t == BracketT(j, r)
                IN  /\ cls[r] # cls[r - 1] =>
                        /\ angle_of_attack[j + 1] =
                             Add(alphas[r - 1], Mul(t, Sub(alphas[r], alphas[r - 1])))
                        /\ zero_lift_drag_coefficient[j + 1] =
                             Add(cds[r - 1], Mul(t, Sub(cds[r], cds[r - 1])))
                    /\ (airfoil_file.data = ExampleTable /\ Needed(j) = Num(1)) =>
                        /\ angle_of_attack[j + 1] = Rat(5, 2)
                        /\ zero_lift_drag_coefficient[j + 1] = Rat(3, 2)

C4_Witness ==
    /\ pc = "derive" /\ airfoil_file.data = ExampleTable
    /\ Needed(1) = Num(1)
    /\ angle_of_attack[2] = Rat(5, 2)
    /\ zero_lift_drag_coefficient[2] = Rat(3, 2)

\* C5: for a table ordered by ascending angle, a target equal to the Cl of the
\* selected row returns exactly that row's angle and drag coefficient.
C5_ExactMatch ==
    /\ (pc = "error" /\ error = "NameError") =>
          ~(SortedByAlpha /\ QualifyingRows(i) # {} /\ cls[SelectedRow(i)] = Needed(i))
    /\ (InAirfoil /\ SortedByAlpha) =>
        \A j \in Processed :
            (QualifyingRows(j) # {} /\ cls[SelectedRow(j)] = Needed(j)) =>
                /\ angle_of_attack[j + 1] = alphas[SelectedRow(j)]
                /\ zero_lift_drag_coefficient[j + 1] = cds[SelectedRow(j)]

\* C6: for a table ascending in angle and in Cl, of two targets whose lookups
\* both return an angle, the larger target never gets the smaller angle.
C6_AngleMonotone ==
    (InAirfoil /\ SortedByAlpha /\ SortedByCl) =>
        \A j1, j2 \in Processed :
            (RLeq(Needed(j1), Needed(j2))
             /\ ~IsNaN(angle_of_attack[j1 + 1]) /\ ~IsNaN(angle_of_attack[j2 + 1])) =>
                RLeq(angle_of_attack[j1 + 1], angle_of_attack[j2 + 1])

C6_Witness ==
    /\ pc = "derive" /\ SortedByAlpha /\ SortedByCl /\ Len(alphas) = 3
    /\ QualifyingRows(0) # {} /\ QualifyingRows(1) # {}
    /\ SelectedRow(0) = 3 /\ SelectedRow(1) = 2
    /\ RLt(angle_of_attack[2], angle_of_attack[1])

\* C7: at every sweep index where no row qualifies, angle of attack,
\* zero-lift drag, total drag, lift-to-drag ratio, glide distance and glide
\* time are NaN, while the needed Cl and the induced drag are numbers.
C7_NullPropagation ==
    pc = "derive" =>
        \A j \in 0..(NumVel - 1) :
            QualifyingRows(j) = {} =>
                /\ IsNaN(angle_of_attack[j + 1])
                /\ IsNaN(zero_lift_drag_coefficient[j + 1])
                /\ IsNaN(total_drag_coefficient[j + 1])
                /\ IsNaN(lift_drag_ratio[j + 1])
                /\ IsNaN(glide_distance[j + 1])
                /\ IsNaN(glide_time[j + 1])
                /\ IsNum(lift_coefficient[j + 1])
                /\ IsNum(induced_drag_coefficient[j + 1])

C7_Witness ==
    /\ pc = "derive" /\ idx = 2 /\ bigger_cd # Unbound
    /\ QualifyingRows(0) = {} /\ IsNaN(glide_time[1]) /\ IsNaN(glide_distance[1])
    /\ QualifyingRows(2) # {} /\ IsNum(glide_time[3]) /\ IsNum(total_drag_coefficient[3])

\* the sweep index of the lookup that ran last for the current airfoil
LastJ == IF pc = "error" THEN i ELSE i - 1

RowPermutations(len) == {p \in [1..len -> 1..len] : \A a, b \in 1..len : p[a] = p[b] => a = b}

Permuted(seq, p) == [r \in 1..Len(seq) |-> seq[p[r]]]

NothingCarried == [min_alpha |-> Unbound, alpha_index |-> -1, bigger_cd |-> Unbound]

\* C8: for every table, sorted or not, the row the scan chooses meets the
\* target and has the least angle among the rows that do, the first of them
\* in index order; the chosen angle is the same for every permutation of the
\* rows, and what an earlier lookup left in min_alpha and alpha_index has no
\* effect.
C8_Selection ==
    (InAirfoil /\ LastJ >= 0 /\ QualifyingRows(LastJ) # {}) =>
        LET k == alpha_index + 1
        IN  /\ k \in 1..Len(alphas)
            /\ RLeq(Needed(LastJ), cls[k])
            /\ min_alpha = alphas[k]
            /\ \A q \in QualifyingRows(LastJ) :
                 /\ RLeq(alphas[k], alphas[q])
                 /\ alphas[q] = alphas[k] => k <= q
            /\ \A p \in RowPermutations(Len(alphas)) :
                 Scan(Permuted(alphas, p), Permuted(cls, p), Needed(LastJ),
                      NothingCarried).min_alpha = alphas[k]

C8_Witness ==
    /\ InAirfoil /\ idx = 2 /\ LastJ >= 1 /\ ~SortedByAlpha
    /\ Len(alphas) = 3 /\ QualifyingRows(LastJ) = {1, 2, 3}
    /\ alpha_index = 1 /\ alphas[3] = alphas[2] /\ RLt(alphas[2], alphas[1])

BadFile(f) ==
    \/ ~f.openable
    \/ f.header < HeaderRows
    \/ \E r \in 1..Len(f.data) : ~f.data[r].ok

C9_Aborted ==
    /\ (airfoil_file # NoFile /\ BadFile(airfoil_file)) =>
          /\ pc = "error"
          /\ error \in {"FileNotFoundError", "StopIteration", "ValueError"}
          /\ Len(plots) = idx - 1
    /\ pc \in {"lookup", "derive"} =>
          /\ ~BadFile(airfoil_file)
          /\ Len(alphas) = Len(airfoil_file.data)
    /\ pc \in {"show", "done"} => (error = "none" /\ Len(plots) = Len(airfoils))

\* C9: a file that cannot be opened, has fewer than HeaderRows rows to skip,
\* or has a data row that does not parse ends the run with an error at that
\* airfoil: no row is skipped, no curve is plotted for that airfoil or a later
\* one, and the rendering step is not reached.
C9_LoadFailureAborts ==
    /\ []C9_Aborted
    /\ [][pc = "error" => (pc' = "error" /\ plots' = plots /\ idx' = idx)]_vars

C9_Witness ==
    /\ pc = "error" /\ error = "ValueError" /\ idx = 2 /\ Len(plots) = 1
    /\ Len(airfoil_file.data) = 3 /\ airfoil_file.data[1].ok /\ ~airfoil_file.data[2].ok

\* C10: for a table ascending in angle and in Cl, a selected row k that is not
\* the first satisfies Cl[k] >= target > Cl[k-1], so the divisor is positive,
\* t is in [0,1], and the returned angle lies between angle[k-1] and angle[k].
C10_BracketValid ==
    (InAirfoil /\ LastJ >= 0 /\ SortedByAlpha /\ SortedByCl
     /\ QualifyingRows(LastJ) # {} /\ alpha_index > 0) =>
        LET k == alpha_index + 1
            t == BracketT(LastJ, k)
        IN  /\ RLeq(Needed(LastJ), cls[k])
            /\ RLt(cls[k - 1], Needed(LastJ))
            /\ RLt(Num(0), Sub(cls[k], cls[k - 1]))
            /\ RLeq(Num(0), t) /\ RLeq(t, Num(1))
            /\ RLeq(alphas[k - 1], angle_of_attack[LastJ + 1])
            /\ RLeq(angle_of_attack[LastJ + 1], alphas[k])

C10_Witness ==
    /\ InAirfoil /\ LastJ >= 0 /\ SortedByAlpha /\ SortedByCl
    /\ QualifyingRows(LastJ) # {} /\ alpha_index = 2
    /\ RLt(Num(0), BracketT(LastJ, 3)) /\ RLt(BracketT(LastJ, 3), Num(1))
    /\ RLt(alphas[2], angle_of_attack[LastJ + 1])
    /\ RLt(angle_of_attack[LastJ + 1], alphas[3])

====
